---- MODULE Spec2Model ----
(***************************************************************************)
(* Function schema objects and their delta commands                        *)
(* (edb/lang/schema/functions.py): parameter extraction, overload          *)
(* qualified names, and Create / Alter / Rename / Delete of functions      *)
(* against a schema snapshot.                                              *)
(***************************************************************************)
EXTENDS Integers, Sequences, FiniteSets, TLC

VARIABLES schema, pre, last, input, output

vars == <<schema, pre, last, input, output>>

(***************************************************************************)
(* Bounds                                                                  *)
(***************************************************************************)
MaxObjects == 2
MaxArgs == 2
MaxTypes == 2

(***************************************************************************)
(* Values                                                                  *)
(***************************************************************************)
\* Python's None for nullable strings; a nullable node or index is a
\* sequence of length 0 (None) or 1.
None == "None"

Modules == {"a", "b"}

\* Schema names: module plus local name; the local name is a sequence of
\* name pieces (a specialized name is the base name followed by qualifiers).
Name(module, pieces) == [module |-> module, name |-> pieces]

BaseNames == {Name(m, <<"f">>) : m \in Modules}

POSITIONAL == "POSITIONAL"
NAMED_ONLY == "NAMED_ONLY"
VARIADIC == "VARIADIC"
ParameterKind == {POSITIONAL, NAMED_ONLY, VARIADIC}

SINGLETON == "SINGLETON"
OPTIONAL == "OPTIONAL"
SET_OF == "SET_OF"

\* Syntactic types: a type name, or a collection of a type name.
TypeName(n) == [maintype |-> n, subtypes |-> <<>>]
ArrayOf(n) == [maintype |-> "array", subtypes |-> <<TypeName(n)>>]

\* Syntactic expressions (default values, initial values).
Constant(v) == [node |-> "Constant", value |-> v]

\* Type references and schema types.
ObjectRef(c) == [kind |-> "ObjectRef", classname |-> c]
Type(n) == [kind |-> "Type", name |-> n]
Collection(s, e) == [kind |-> "Collection", schema_name |-> s, element_type |-> e]

(***************************************************************************)
(* Collaborators outside functions.py                                      *)
(***************************************************************************)
\* codegen.generate_source: the source text of an expression node.
generate_source(e) ==
    IF e.value = 1 THEN "1" ELSE IF e.value = 2 THEN "2" ELSE "0"

\* utils.ast_to_typeref: a syntactic type becomes a forward reference by
\* name, or a collection whose element is a forward reference.
ast_to_typeref(t) ==
    IF t.subtypes = <<>>
    THEN ObjectRef(t.maintype)
    ELSE Collection(t.maintype, ObjectRef(t.subtypes[1].maintype))

\* Resolution of a reference against the schema (done by the named-object
\* get_struct_properties): the schema type that carries the referenced name.
resolve_typeref(r) ==
    IF r.kind = "ObjectRef"
    THEN Type(r.classname)
    ELSE IF r.kind = "Collection"
    THEN Collection(r.schema_name, Type(r.element_type.classname))
    ELSE r

\* named.NamedObject.get_specialized_name: the base name followed by the
\* qualifiers, in order.
get_specialized_name(name, quals) == <<name.module>> \o name.name \o quals

(***************************************************************************)
(* FunctionCommandMixin._get_function_fullname                             *)
(***************************************************************************)
\* Mutant: a collection contributes its schema name only.
qualsMutantDropElement(pt) ==
    IF pt.kind = "ObjectRef"
    THEN <<pt.classname>>
    ELSE IF pt.kind = "Collection"
    THEN <<pt.schema_name>>
    ELSE <<pt.name>>

\* The qualifiers one parameter type contributes.
quals_of(pt) ==
    IF pt.kind = "ObjectRef"
    THEN <<pt.classname>>
    ELSE IF pt.kind = "Collection"
    THEN <<pt.schema_name>> \o
         (IF pt.element_type.kind = "ObjectRef"
          THEN <<pt.element_type.classname>>
          ELSE <<pt.element_type.name>>)
    ELSE <<pt.name>>

RECURSIVE quals_loop(_, _, _)
quals_loop(paramtypes, i, quals) ==
    IF i > Len(paramtypes)
    THEN quals
    ELSE quals_loop(paramtypes, i + 1, quals \o quals_of(paramtypes[i]))

\* Mutant: the parameter types are left out of the name.
fullnameMutantIgnoreTypes(name, paramtypes) ==
    Name(name.module, get_specialized_name(name, <<>>))

get_function_fullname(name, paramtypes) ==
    Name(name.module, get_specialized_name(name, quals_loop(paramtypes, 1, <<>>)))

(***************************************************************************)
(* parameters_from_ast                                                     *)
(***************************************************************************)
ErrNamedOnly == "named only parameters are not allowed in this context"

EmptyParametersInfo ==
    [paramnames |-> <<>>, paramdefaults |-> <<>>, paramtypes |-> <<>>,
     paramtypemods |-> <<>>, paramkinds |-> <<>>, variadic |-> <<>>]

\* Mutant: a default is recorded only for an argument that has one.
paramStepMutantSkipNoDefault(pi, arg, i) ==
    [paramnames |-> Append(pi.paramnames, arg.name),
     paramtypemods |-> Append(pi.paramtypemods, arg.typemod),
     paramkinds |-> Append(pi.paramkinds, arg.kind),
     paramdefaults |-> IF arg.default = <<>>
                       THEN pi.paramdefaults
                       ELSE Append(pi.paramdefaults, generate_source(arg.default[1])),
     paramtypes |-> Append(pi.paramtypes, ast_to_typeref(arg.type)),
     variadic |-> IF arg.kind = VARIADIC THEN <<i - 1>> ELSE pi.variadic]

\* Mutant: only the first VARIADIC argument is recorded.
paramStepMutantFirstVariadic(pi, arg, i) ==
    [paramnames |-> Append(pi.paramnames, arg.name),
     paramtypemods |-> Append(pi.paramtypemods, arg.typemod),
     paramkinds |-> Append(pi.paramkinds, arg.kind),
     paramdefaults |-> Append(pi.paramdefaults,
                              IF arg.default = <<>>
                              THEN None
                              ELSE generate_source(arg.default[1])),
     paramtypes |-> Append(pi.paramtypes, ast_to_typeref(arg.type)),
     variadic |-> IF arg.kind = VARIADIC /\ pi.variadic = <<>>
                  THEN <<i - 1>>
                  ELSE pi.variadic]

\* One pass of the loop body for argument i (argi = i - 1).
param_step(pi, arg, i) ==
    [paramnames |-> Append(pi.paramnames, arg.name),
     paramtypemods |-> Append(pi.paramtypemods, arg.typemod),
     paramkinds |-> Append(pi.paramkinds, arg.kind),
     paramdefaults |-> Append(pi.paramdefaults,
                              IF arg.default = <<>>
                              THEN None
                              ELSE generate_source(arg.default[1])),
     paramtypes |-> Append(pi.paramtypes, ast_to_typeref(arg.type)),
     variadic |-> IF arg.kind = VARIADIC THEN <<i - 1>> ELSE pi.variadic]

RECURSIVE param_loop(_, _, _, _)
param_loop(args, i, pi, allow_named) ==
    IF i > Len(args)
    THEN [err |-> "ok", pi |-> pi]
    ELSE IF args[i].kind = NAMED_ONLY /\ ~allow_named
    THEN [err |-> ErrNamedOnly, pi |-> EmptyParametersInfo]
    ELSE param_loop(args, i + 1, param_step(pi, args[i], i), allow_named)

parameters_from_ast(astnode, allow_named) ==
    param_loop(astnode.args, 1, EmptyParametersInfo, allow_named)

(***************************************************************************)
(* Inputs of the pure-function specifications                              *)
(***************************************************************************)
RECURSIVE SeqsUpTo(_, _)
SeqsUpTo(S, n) ==
    IF n = 0
    THEN {<<>>}
    ELSE LET shorter == SeqsUpTo(S, n - 1)
         IN  shorter \cup {Append(s, e) : s \in {t \in shorter : Len(t) = n - 1}, e \in S}

ArgUniverse ==
    [name : {"x", "y"},
     type : {TypeName("std::int64"), ArrayOf("std::str")},
     typemod : {SINGLETON, SET_OF},
     kind : ParameterKind,
     default : {<<>>, <<Constant(1)>>}]

TypeUniverse ==
    {ObjectRef("std::int64"), Type("std::int64"), Type("std::str"),
     Collection("array", ObjectRef("std::int64")),
     Collection("array", Type("std::str")),
     Collection("set", Type("std::int64"))}

Idle == [op |-> "init"]

\* Extraction applied to an arbitrary argument list.
InitParams ==
    /\ schema = {} /\ pre = {} /\ last = Idle
    /\ input \in [args : SeqsUpTo(ArgUniverse, MaxArgs), allow_named : BOOLEAN]
    /\ output = <<>>

ExtractParameters ==
    /\ output = <<>>
    /\ output' = <<parameters_from_ast(input, input.allow_named)>>
    /\ UNCHANGED <<schema, pre, last, input>>

SpecParams == InitParams /\ [][ExtractParameters]_vars

\* Name qualification applied to two arbitrary parameter type lists.
InitQualify ==
    /\ schema = {} /\ pre = {} /\ last = Idle
    /\ input \in [name : BaseNames,
                  pts1 : SeqsUpTo(TypeUniverse, MaxTypes),
                  pts2 : SeqsUpTo(TypeUniverse, MaxTypes)]
    /\ output = <<>>

QualifyName ==
    /\ output = <<>>
    /\ output' = <<[n1 |-> get_function_fullname(input.name, input.pts1),
                    n2 |-> get_function_fullname(input.name, input.pts2)]>>
    /\ UNCHANGED <<schema, pre, last, input>>

SpecQualify == InitQualify /\ [][QualifyName]_vars

(***************************************************************************)
(* Statements                                                              *)
(***************************************************************************)
Arg(name, type, default) ==
    [name |-> name, type |-> type, typemod |-> SINGLETON, kind |-> POSITIONAL,
     default |-> default]

\* Parameter lists of the create and drop statements.
Signatures ==
    {<<Arg("x", TypeName("std::int64"), <<>>)>>,
     <<Arg("x", TypeName("std::str"), <<Constant(1)>>)>>,
     <<Arg("x", TypeName("std::any"), <<>>)>>,
     <<Arg("x", TypeName("std::any"), <<Constant(2)>>)>>,
     <<Arg("x", ArrayOf("std::int64"), <<>>)>>,
     <<Arg("x", TypeName("std::int64"), <<>>),
       Arg("y", TypeName("std::any"), <<Constant(1)>>)>>}

\* Implementation bodies (astnode.code); <<>> is a statement without one.
Bodies ==
    {<<>>,
     <<[language |-> "SQL", from_name |-> "pg_fn", code |-> None]>>,
     <<[language |-> "SQL", from_name |-> "pg_fn", code |-> "SELECT 1"]>>,
     <<[language |-> "EdgeQL", from_name |-> None, code |-> "SELECT 1"]>>,
     <<[language |-> "EdgeQL", from_name |-> None, code |-> None]>>}

CreateFunctionAst(name, args, code) ==
    [name |-> name, args |-> args, returning |-> TypeName("std::int64"),
     returning_typemod |-> SINGLETON, aggregate |-> FALSE,
     initial_value |-> <<>>, code |-> code]

DropFunctionAst(name, args) == [name |-> name, args |-> args]

CreateStmts == {CreateFunctionAst(n, a, <<>>) : n \in BaseNames, a \in Signatures}

BodySignatures == {a \in Signatures : Len(a) = 1 /\ a[1].type = TypeName("std::int64")}

BodyStmts == {CreateFunctionAst(n, a, c) : n \in BaseNames, a \in BodySignatures, c \in Bodies}

DropStmts == {DropFunctionAst(n, a) : n \in BaseNames, a \in Signatures}

(***************************************************************************)
(* Function objects and the command framework                              *)
(***************************************************************************)
AlterObjectProperty(property, new_value) ==
    [property |-> property, new_value |-> new_value]

\* Field defaults of class Function.
FieldDefault(field) ==
    CASE field = "aggregate" -> FALSE
      [] OTHER -> None

\* The value a command's property subcommands give a field.
prop_value(cmd, field) ==
    LET idx == {i \in DOMAIN cmd.ops : cmd.ops[i].property = field}
    IN  IF idx = {}
        THEN FieldDefault(field)
        ELSE cmd.ops[CHOOSE i \in idx : \A j \in idx : j <= i].new_value

\* named get_struct_properties: the property values of the command, with
\* type references resolved against the schema.
NamedObject_get_struct_properties(cmd) ==
    [name |-> cmd.classname,
     paramnames |-> prop_value(cmd, "paramnames"),
     paramtypes |-> [i \in DOMAIN prop_value(cmd, "paramtypes") |->
                        resolve_typeref(prop_value(cmd, "paramtypes")[i])],
     paramtypemods |-> prop_value(cmd, "paramtypemods"),
     paramkinds |-> prop_value(cmd, "paramkinds"),
     paramdefaults |-> prop_value(cmd, "paramdefaults"),
     return_type |-> resolve_typeref(prop_value(cmd, "return_type")),
     aggregate |-> prop_value(cmd, "aggregate"),
     code |-> prop_value(cmd, "code"),
     language |-> prop_value(cmd, "language"),
     from_function |-> prop_value(cmd, "from_function"),
     initial_value |-> prop_value(cmd, "initial_value"),
     return_typemod |-> prop_value(cmd, "return_typemod")]

\* The name attribute of a schema type.
type_name(pt) == IF pt.kind = "Collection" THEN pt.schema_name ELSE pt.name

\* schema.get(name, None)
schema_get(sch, name) ==
    LET found == {o \in sch : o.name = name}
    IN  IF found = {} THEN <<>> ELSE <<CHOOSE o \in found : TRUE>>

names_of(sch) == {o.name : o \in sch}

(***************************************************************************)
(* CreateFunction                                                          *)
(***************************************************************************)
ErrPolymorphicDefault == "polymorphic parameter of type std::any cannot have a default value"
ErrDuplicateSignature == "a function with the same signature is already defined"
ErrObjectNotFound == "reference to a non-existent schema item"

\* Mutant: the inline code is recorded next to the delegate.
bodyOpsMutantCodeAndDelegate(code) ==
    IF code = <<>>
    THEN <<>>
    ELSE <<AlterObjectProperty("language", code[1].language)>> \o
         (IF code[1].from_name # None
          THEN <<AlterObjectProperty("from_function", code[1].from_name)>>
          ELSE <<>>) \o
         <<AlterObjectProperty("code", code[1].code)>>

body_ops(code) ==
    IF code = <<>>
    THEN <<>>
    ELSE <<AlterObjectProperty("language", code[1].language)>> \o
         (IF code[1].from_name # None
          THEN <<AlterObjectProperty("from_function", code[1].from_name)>>
          ELSE <<AlterObjectProperty("code", code[1].code)>>)

CreateFunction_cmd_tree_from_ast(astnode) ==
    LET pi == parameters_from_ast(astnode, TRUE).pi
    IN  [classname |-> astnode.name,
         ops |-> <<AlterObjectProperty("paramnames", pi.paramnames),
                   AlterObjectProperty("paramtypes", pi.paramtypes),
                   AlterObjectProperty("paramtypemods", pi.paramtypemods),
                   AlterObjectProperty("paramkinds", pi.paramkinds),
                   AlterObjectProperty("paramdefaults", pi.paramdefaults),
                   AlterObjectProperty("return_type", ast_to_typeref(astnode.returning)),
                   AlterObjectProperty("aggregate", astnode.aggregate),
                   AlterObjectProperty("return_typemod", astnode.returning_typemod)>>
                 \o (IF astnode.initial_value # <<>>
                     THEN <<AlterObjectProperty("initial_value",
                                generate_source(astnode.initial_value[1]))>>
                     ELSE <<>>)
                 \o body_ops(astnode.code)]

CreateFunction_get_struct_properties(cmd) ==
    LET props == NamedObject_get_struct_properties(cmd)
    IN  [props EXCEPT !.name = get_function_fullname(props.name, props.paramtypes)]

\* named CreateNamedObject._add_to_schema: the object built from the
\* command's struct properties is added to the schema.
CreateNamedObject_add_to_schema(sch, cmd) ==
    [schema |-> sch \cup {CreateFunction_get_struct_properties(cmd)}, err |-> "ok"]

min2(a, b) == IF a < b THEN a ELSE b

\* Mutant: only the first parameter is examined.
polymorphicDefaultMutantFirstOnly(props) ==
    /\ Len(props.paramtypes) >= 1
    /\ type_name(props.paramtypes[1]) = "std::any"
    /\ props.paramdefaults[1] # None

\* The zip loop over (paramnames, paramtypes, paramdefaults).
has_polymorphic_default(props) ==
    \E i \in 1..min2(Len(props.paramnames),
                     min2(Len(props.paramtypes), Len(props.paramdefaults))) :
        type_name(props.paramtypes[i]) = "std::any" /\ props.paramdefaults[i] # None

\* Mutant: the lookup of the full name is left out.
addToSchemaMutantNoLookup(sch, cmd) ==
    LET props == NamedObject_get_struct_properties(cmd)
    IN  IF has_polymorphic_default(props)
        THEN [schema |-> sch, err |-> ErrPolymorphicDefault]
        ELSE CreateNamedObject_add_to_schema(sch, cmd)

CreateFunction_add_to_schema(sch, cmd) ==
    LET props == NamedObject_get_struct_properties(cmd)
        fullname == get_function_fullname(props.name, props.paramtypes)
    IN  IF has_polymorphic_default(props)
        THEN [schema |-> sch, err |-> ErrPolymorphicDefault]
        ELSE IF schema_get(sch, fullname) # <<>>
        THEN [schema |-> sch, err |-> ErrDuplicateSignature]
        ELSE CreateNamedObject_add_to_schema(sch, cmd)

(***************************************************************************)
(* DeleteFunction, AlterFunction, RenameFunction                           *)
(***************************************************************************)
\* Mutant: the base name is not specialized.
deleteClassnameMutantUnqualified(astnode) == astnode.name

\* Mutant: only the first parameter type qualifies the name.
deleteClassnameMutantFirstParam(astnode) ==
    LET pi == parameters_from_ast(astnode, TRUE).pi
    IN  get_function_fullname(astnode.name,
                              SubSeq(pi.paramtypes, 1, min2(1, Len(pi.paramtypes))))

DeleteFunction_classname_from_ast(astnode) ==
    LET pi == parameters_from_ast(astnode, TRUE).pi
    IN  get_function_fullname(astnode.name, pi.paramtypes)

\* Delete removes the object, or fails when there is none.
DeleteNamedObject_apply(sch, classname) ==
    LET obj == schema_get(sch, classname)
    IN  IF obj = <<>>
        THEN [schema |-> sch, err |-> ErrObjectNotFound]
        ELSE [schema |-> sch \ {obj[1]}, err |-> "ok"]

set_field(obj, op) ==
    CASE op.property = "aggregate" -> [obj EXCEPT !.aggregate = op.new_value]
      [] op.property = "initial_value" -> [obj EXCEPT !.initial_value = op.new_value]
      [] OTHER -> obj

\* Alter looks the object up, fails when there is none, and applies the
\* property subcommand.
AlterNamedObject_apply(sch, classname, op) ==
    LET obj == schema_get(sch, classname)
    IN  IF obj = <<>>
        THEN [schema |-> sch, err |-> ErrObjectNotFound]
        ELSE [schema |-> (sch \ {obj[1]}) \cup {set_field(obj[1], op)}, err |-> "ok"]

\* The qualifiers of a specialized name.
name_quals(name) == SubSeq(name.name, 3, Len(name.name))

\* Mutant: the qualifiers are lost.
renamedMutantDropSuffix(classname, new_base) ==
    Name(new_base.module, get_specialized_name(new_base, <<>>))

\* The name a function gets when its base name becomes new_base.
renamed(classname, new_base) ==
    Name(new_base.module, get_specialized_name(new_base, name_quals(classname)))

\* Rename changes the qualified name and re-indexes the snapshot.
RenameNamedObject_apply(sch, classname, new_name) ==
    LET obj == schema_get(sch, classname)
    IN  [schema |-> (sch \ {obj[1]}) \cup {[obj[1] EXCEPT !.name = new_name]},
         err |-> "ok"]

\* Target names of the alter and rename commands.
TargetNames == {DeleteFunction_classname_from_ast(d) : d \in DropStmts}

(***************************************************************************)
(* The schema under create, alter, rename and delete commands              *)
(***************************************************************************)
Init ==
    /\ schema = {}
    /\ pre = {}
    /\ last = Idle
    /\ input = <<>>
    /\ output = <<>>

CreateFrom(stmts) ==
    \E astnode \in stmts :
        \E cmd \in {CreateFunction_cmd_tree_from_ast(astnode)} :
        \E r \in {CreateFunction_add_to_schema(schema, cmd)} :
            /\ Cardinality(r.schema) <= MaxObjects
            /\ schema' = r.schema
            /\ pre' = schema
            /\ last' = [op |-> "create", astnode |-> astnode,
                        classname |-> cmd.classname, err |-> r.err]
            /\ UNCHANGED <<input, output>>

CreateFunction == CreateFrom(CreateStmts)

CreateFunctionWithBody == CreateFrom(BodyStmts)

DeleteFunction ==
    \E astnode \in DropStmts :
        \E classname \in {DeleteFunction_classname_from_ast(astnode)} :
        \E r \in {DeleteNamedObject_apply(schema, classname)} :
            /\ schema' = r.schema
            /\ pre' = schema
            /\ last' = [op |-> "delete", astnode |-> astnode,
                        classname |-> classname, err |-> r.err]
            /\ UNCHANGED <<input, output>>

AlterFunction ==
    \E classname \in TargetNames, value \in {TRUE} :
        \E op \in {AlterObjectProperty("aggregate", value)} :
        \E r \in {AlterNamedObject_apply(schema, classname, op)} :
            /\ schema' = r.schema
            /\ pre' = schema
            /\ last' = [op |-> "alter", prop |-> op,
                        classname |-> classname, err |-> r.err]
            /\ UNCHANGED <<input, output>>

RenameFunction ==
    \E obj \in schema, new_base \in BaseNames :
        \E new_name \in {renamed(obj.name, new_base)} :
        \E r \in {RenameNamedObject_apply(schema, obj.name, new_name)} :
            /\ new_name \notin names_of(schema \ {obj})
            /\ schema' = r.schema
            /\ pre' = schema
            /\ last' = [op |-> "rename", new_base |-> new_base,
                        classname |-> obj.name, err |-> r.err]
            /\ UNCHANGED <<input, output>>

Next == CreateFunction \/ DeleteFunction \/ AlterFunction \/ RenameFunction

Spec == Init /\ [][Next]_vars

\* Compiled creates with implementation bodies, followed by renames and deletes.
NextBodies == CreateFunctionWithBody \/ RenameFunction \/ DeleteFunction

SpecBodies == Init /\ [][NextBodies]_vars

(***************************************************************************)
(* Vocabulary of the properties                                            *)
(***************************************************************************)
\* The qualifier tokens of a type reference: a forward reference gives its
\* qualified name, a collection its schema name followed by its element's
\* token, any other type its plain name.
RECURSIVE TypeTokens(_)
TypeTokens(pt) ==
    CASE pt.kind = "ObjectRef" -> <<pt.classname>>
      [] pt.kind = "Collection" -> <<pt.schema_name>> \o TypeTokens(pt.element_type)
      [] OTHER -> <<pt.name>>

RECURSIVE TokenSequence(_)
TokenSequence(pts) ==
    IF pts = <<>> THEN <<>> ELSE TypeTokens(Head(pts)) \o TokenSequence(Tail(pts))

\* The tokens of a syntactic parameter type.
SyntacticTokens(t) ==
    IF t.subtypes = <<>> THEN <<t.maintype>> ELSE <<t.maintype, t.subtypes[1].maintype>>

RECURSIVE ArgTokens(_)
ArgTokens(args) ==
    IF args = <<>> THEN <<>> ELSE SyntacticTokens(Head(args).type) \o ArgTokens(Tail(args))

\* The overload-qualified name of a statement: its base name specialized
\* with the tokens of its parameter types.
OverloadName(astnode) ==
    Name(astnode.name.module,
         <<astnode.name.module>> \o astnode.name.name \o ArgTokens(astnode.args))

\* The base name of a specialized name.
BaseOf(name) == Name(name.module, <<name.name[2]>>)

\* The ordered list of a statement's parameter types.
ArgTypes(astnode) == [i \in DOMAIN astnode.args |-> astnode.args[i].type]

\* Some parameter of the statement has type std::any and a default.
PolymorphicDefault(astnode) ==
    \E i \in DOMAIN astnode.args :
        /\ astnode.args[i].type = TypeName("std::any")
        /\ astnode.args[i].default # <<>>

CountVariadic(kinds) == Cardinality({i \in DOMAIN kinds : kinds[i] = VARIADIC})

VariadicIndexes(args) == {i \in DOMAIN args : args[i].kind = VARIADIC}

Extracted == output # <<>> /\ output[1].err = "ok"

\* Entry i of every sequence of the extraction result describes argument i.
EntriesDescribeArguments ==
    LET args == input.args
        pi == output[1].pi
    IN  /\ Len(pi.paramnames) = Len(args)
        /\ Len(pi.paramtypes) = Len(args)
        /\ Len(pi.paramtypemods) = Len(args)
        /\ Len(pi.paramkinds) = Len(args)
        /\ Len(pi.paramdefaults) = Len(args)
        /\ \A i \in DOMAIN args :
              /\ pi.paramnames[i] = args[i].name
              /\ pi.paramtypemods[i] = args[i].typemod
              /\ pi.paramkinds[i] = args[i].kind
              /\ TypeTokens(pi.paramtypes[i]) = SyntacticTokens(args[i].type)
              /\ (pi.paramdefaults[i] = None) <=> (args[i].default = <<>>)

(***************************************************************************)
(* Properties                                                              *)
(***************************************************************************)
\* C1 (as stated): a Create whose overload-qualified name is already a key
\* of the snapshot fails with the duplicate-signature error and leaves the
\* snapshot as it was.
C1_DuplicateAlwaysReported ==
    (last.op = "create" /\ OverloadName(last.astnode) \in names_of(pre))
        => (last.err = ErrDuplicateSignature /\ schema = pre)

\* C1 (amended): a Create whose overload-qualified name is already a key of
\* the snapshot, and in which no std::any parameter has a default, fails
\* with the duplicate-signature error and leaves the snapshot as it was.
C1_DuplicateSignature ==
    (/\ last.op = "create"
     /\ OverloadName(last.astnode) \in names_of(pre)
     /\ ~PolymorphicDefault(last.astnode))
        => (last.err = ErrDuplicateSignature /\ schema = pre)

\* C1 witness: a Create of a signature the snapshot holds, without a std::any default, was rejected as a duplicate.
C1_Witness ==
    /\ last.op = "create"
    /\ OverloadName(last.astnode) \in names_of(pre)
    /\ ~PolymorphicDefault(last.astnode)
    /\ last.err = ErrDuplicateSignature

\* C2: a Create in which some std::any parameter has a default fails with
\* the polymorphic-default error and leaves the snapshot as it was, also
\* when the snapshot already holds the same signature.
C2_PolymorphicDefault ==
    (last.op = "create" /\ PolymorphicDefault(last.astnode))
        => (last.err = ErrPolymorphicDefault /\ schema = pre)

\* C2 witness: a Create with a std::any default was rejected while the snapshot already held the same signature.
C2_Witness ==
    /\ last.op = "create"
    /\ PolymorphicDefault(last.astnode)
    /\ OverloadName(last.astnode) \in names_of(pre)
    /\ last.err = ErrPolymorphicDefault

\* C3: a successful Create followed by a Delete whose target name is
\* computed from the same base name and the same parameter list removes
\* exactly the created object: the snapshot is again the one before the
\* Create.
C3_CreateDeleteRoundTrip ==
    [][(/\ last.op = "create" /\ last.err = "ok"
        /\ last'.op = "delete"
        /\ last'.astnode.name = last.astnode.name
        /\ last'.astnode.args = last.astnode.args)
           => (/\ last'.err = "ok"
               /\ pre' \ schema' = schema \ pre
               /\ schema' = pre)]_vars

\* C3 witness: a Delete removed exactly the object that a Create of the same base name and parameter list, with a collection parameter, builds.
C3_Witness ==
    /\ last.op = "delete" /\ last.err = "ok"
    /\ \E astnode \in CreateStmts :
          /\ astnode.name = last.astnode.name
          /\ astnode.args = last.astnode.args
          /\ pre \ schema = {CreateFunction_get_struct_properties(
                                 CreateFunction_cmd_tree_from_ast(astnode))}
          /\ \E i \in DOMAIN astnode.args : astnode.args[i].type.subtypes # <<>>

\* Two consecutive Creates of overloads: the same base name, different
\* ordered parameter type lists, neither signature in the snapshot before
\* the first.
OverloadPair ==
    /\ last.op = "create" /\ last'.op = "create"
    /\ last'.astnode.name = last.astnode.name
    /\ ArgTypes(last'.astnode) # ArgTypes(last.astnode)
    /\ OverloadName(last.astnode) \notin names_of(pre)
    /\ OverloadName(last'.astnode) \notin names_of(pre)

\* Both Creates succeeded, and the snapshot holds their two distinct
\* objects under two distinct names.
BothCreated ==
    /\ last.err = "ok" /\ last'.err = "ok"
    /\ \E o1 \in schema' \ pre, o2 \in schema' \ pre :
          /\ o1 # o2
          /\ o1.name # o2.name
          /\ o1.name = OverloadName(last.astnode)
          /\ o2.name = OverloadName(last'.astnode)
          /\ schema' = pre \cup {o1, o2}

\* C4 (as stated): two Creates with the same base name and different
\* ordered parameter type lists, applied one after the other to a snapshot
\* that holds neither, both succeed and leave two distinct objects under
\* two distinct qualified names.
C4_AnyOverloadsCoexist == [][OverloadPair => BothCreated]_vars

\* C4 (amended): the same, for two Creates neither of which gives a
\* std::any parameter a default.
C4_OverloadsCoexist ==
    [][(/\ OverloadPair
        /\ ~PolymorphicDefault(last.astnode)
        /\ ~PolymorphicDefault(last'.astnode)) => BothCreated]_vars

\* C4 witness: a Create added an overload next to a function of the same base name with another parameter type list.
C4_Witness ==
    /\ last.op = "create" /\ last.err = "ok"
    /\ \E o1 \in pre, o2 \in schema \ pre :
          /\ BaseOf(o1.name) = BaseOf(o2.name)
          /\ o1.paramtypes # o2.paramtypes
          /\ Len(o1.paramtypes) = Len(o2.paramtypes)

\* C5: for a fixed base name, two parameter type lists get the same
\* qualified name exactly when their qualifier-token sequences are equal,
\* and the qualified name has the module of the base name.
C5_QualifyInjective ==
    output # <<>> =>
        /\ (output[1].n1 = output[1].n2)
               <=> (TokenSequence(input.pts1) = TokenSequence(input.pts2))
        /\ output[1].n1.module = input.name.module
        /\ output[1].n2.module = input.name.module

\* C5 witness: two collections with the same schema name and different elements got different qualified names.
C5_Witness ==
    /\ output # <<>>
    /\ Len(input.pts1) = Len(input.pts2)
    /\ \E i \in DOMAIN input.pts1 :
          /\ input.pts1[i].kind = "Collection"
          /\ input.pts2[i].kind = "Collection"
          /\ input.pts1[i].schema_name = input.pts2[i].schema_name
          /\ input.pts1[i] # input.pts2[i]
    /\ output[1].n1 # output[1].n2

\* C6 (as stated): whenever extraction returns, all sequences have the
\* length of the argument list, entry i describes argument i, and
\* paramkinds holds at most one VARIADIC entry.
C6_AtMostOneVariadicEntry ==
    Extracted =>
        /\ EntriesDescribeArguments
        /\ CountVariadic(output[1].pi.paramkinds) <= 1

\* C6 (amended): whenever extraction returns, all sequences have the length
\* of the argument list and entry i describes argument i; paramkinds holds
\* at most one VARIADIC entry when the argument list holds at most one
\* VARIADIC argument.
C6_ParallelSequences ==
    Extracted =>
        /\ EntriesDescribeArguments
        /\ (Cardinality(VariadicIndexes(input.args)) <= 1
               => CountVariadic(output[1].pi.paramkinds) <= 1)

\* C6 witness: extraction returned for two different arguments, exactly one of them VARIADIC, one without a default.
C6_Witness ==
    /\ Extracted
    /\ Len(input.args) = 2
    /\ Cardinality(VariadicIndexes(input.args)) = 1
    /\ input.args[1] # input.args[2]
    /\ \E i \in DOMAIN input.args : input.args[i].default = <<>>

C8_NotFound ==
    /\ (last.op = "delete" /\ OverloadName(last.astnode) \notin names_of(pre))
           => (last.err = ErrObjectNotFound /\ schema = pre)
    /\ (last.op = "alter" /\ last.classname \notin names_of(pre))
           => (last.err = ErrObjectNotFound /\ schema = pre)

\* C8 witness: a Delete failed as not found while the snapshot held another overload of the same base name.
C8_Witness ==
    /\ last.op = "delete"
    /\ last.err = ErrObjectNotFound
    /\ pre # {}
    /\ \E o \in pre : BaseOf(o.name) = last.astnode.name

\* C9 (as stated): the variadic index is none without a VARIADIC argument,
\* and otherwise the index of the first VARIADIC argument.
C9_FirstVariadic ==
    Extracted =>
        output[1].pi.variadic =
            IF VariadicIndexes(input.args) = {}
            THEN <<>>
            ELSE <<(CHOOSE i \in VariadicIndexes(input.args) :
                       \A j \in VariadicIndexes(input.args) : i <= j) - 1>>

\* C9 (amended): the variadic index is none without a VARIADIC argument,
\* and otherwise the index of the last VARIADIC argument.
C9_LastVariadic ==
    Extracted =>
        output[1].pi.variadic =
            IF VariadicIndexes(input.args) = {}
            THEN <<>>
            ELSE <<(CHOOSE i \in VariadicIndexes(input.args) :
                       \A j \in VariadicIndexes(input.args) : i >= j) - 1>>

\* C9 witness: extraction of two VARIADIC arguments returned index 1.
C9_Witness ==
    /\ Extracted
    /\ Cardinality(VariadicIndexes(input.args)) = 2
    /\ output[1].pi.variadic = <<1>>

\* C10: no function of a snapshot built by compiled Creates, Renames and
\* Deletes has both inline code and a delegate; a body naming a delegate
\* sets from_function and leaves code null, a body naming none sets
\* language and code and leaves from_function null, and a statement without
\* a body leaves language, code and from_function null.
C10_CodeOrDelegate ==
    /\ \A o \in schema : ~(o.code # None /\ o.from_function # None)
    /\ (last.op = "create" /\ last.err = "ok") =>
          \E o \in schema \ pre :
              LET body == last.astnode.code
              IN  /\ schema \ pre = {o}
                  /\ body = <<>> =>
                        (o.language = None /\ o.code = None /\ o.from_function = None)
                  /\ (body # <<>> /\ body[1].from_name # None) =>
                        (o.from_function = body[1].from_name /\ o.code = None)
                  /\ (body # <<>> /\ body[1].from_name = None) =>
                        (/\ o.language = body[1].language
                         /\ o.code = body[1].code
                         /\ o.from_function = None)

\* C10 witness: a Create whose body carries both a delegate and inline code built an object with the delegate.
C10_Witness ==
    /\ last.op = "create" /\ last.err = "ok"
    /\ last.astnode.code # <<>>
    /\ last.astnode.code[1].from_name # None
    /\ last.astnode.code[1].code # None
    /\ \E o \in schema \ pre : o.from_function = last.astnode.code[1].from_name

====
